---- MODULE Spec2Model ----
(***************************************************************************)
(* Model of the dygraphs tooltip plugin (src/plugins/tooltip.js).          *)
(*                                                                         *)
(* Two specifications share the variables below:                           *)
(*   SpecDash  one call of generateTooltipDashHTML on inputs drawn from    *)
(*             bounded sets (stroke pattern, colour, pixel width of 1em);  *)
(*   Spec      the plugin's life cycle: activate, then the host's select,  *)
(*             deselect, predraw and didDrawChart events, and destroy.     *)
(*                                                                         *)
(* JavaScript numbers are modelled as exact fractions <<num, den>>; a zero *)
(* denominator stands for the non-finite results of a division by zero     *)
(* (<<1, 0>> is Infinity, <<0, 0>> is NaN).  Floating-point rounding is    *)
(* not modelled.                                                           *)
(***************************************************************************)
EXTENDS Integers, Sequences, FiniteSets, TLC

\* Bounds of the model.
MaxLen == 3      \* longest stroke pattern
MaxSeg == 8      \* largest element of a stroke pattern (pixels)
MaxEm  == 12     \* largest pixel width of 1em

VARIABLES
  strokePattern,  \* argument of generateTooltipDashHTML: [set, v]
  color,          \* argument of generateTooltipDashHTML
  oneEmWidth,     \* argument of generateTooltipDashHTML
  dashPc,         \* "idle" | "called" | "returned" | "hung" (never returns)
  dash,           \* what the call produced: [returns, blocks]
  g,              \* the Dygraph instance: options, labels, series, formatters
  xValue,         \* argument x of generateTooltipHTML: Undefined or Some(value)
  sel_points,     \* argument of generateTooltipHTML
  htmlPc,         \* "idle" | "called" | "returned"
  html,           \* the fragment the call returned
  pc,             \* the plugin: "constructed" | "active" | "destroyed"
  tooltip_div_,   \* this.tooltip_div_: "null" | "userDiv" | "generatedDiv"
  is_generated_div_,  \* this.is_generated_div_
  one_em_width_,  \* this.one_em_width_: Undefined or Some(pixels)
  div,            \* the container element: style, parent and innerHTML
  emWidth,        \* offsetWidth a 1em span has in the container right now
  lastEvent,      \* the handler (or page restyling) that ran last
  measured,       \* calls of calculateEmWidthInDiv made by that handler
  renderedWith    \* oneEmWidth that handler passed to generateTooltipHTML

dashVars == <<strokePattern, color, oneEmWidth, dashPc, dash>>
htmlVars == <<g, xValue, sel_points, htmlPc, html>>
pluginVars == <<pc, tooltip_div_, is_generated_div_, one_em_width_, div,
                emWidth, lastEvent, measured, renderedWith>>
vars == <<strokePattern, color, oneEmWidth, dashPc, dash,
          g, xValue, sel_points, htmlPc, html,
          pc, tooltip_div_, is_generated_div_, one_em_width_, div,
          emWidth, lastEvent, measured, renderedWith>>

----------------------------------------------------------------------------
\* JavaScript numbers as fractions.

Num(n) == <<n, 1>>
Infinity == <<1, 0>>
NaN == <<0, 0>>

\* a / b for non-negative integers a, b (JavaScript's / operator).
Div(a, b) == IF b # 0 THEN <<a, b>> ELSE IF a = 0 THEN NaN ELSE Infinity

IsFinite(x) == x[2] # 0

\* Math.floor of a non-negative fraction; Infinity and NaN are kept.
MathFloor(x) == IF x[2] = 0 THEN x ELSE Num(x[1] \div x[2])

\* x > k for an integer k; every comparison with NaN is false.
Greater(x, k) == IF x[2] = 0 THEN x = Infinity ELSE x[1] > k * x[2]

\* Sum, equality and order of fractions (used to state the properties).
Add(x, y) ==
  IF x[2] = y[2] THEN <<x[1] + y[1], x[2]>>
  ELSE <<x[1] * y[2] + y[1] * x[2], x[2] * y[2]>>
Same(x, y) == IsFinite(x) /\ IsFinite(y) /\ x[1] * y[2] = y[1] * x[2]
AtMost(x, y) == IsFinite(x) /\ IsFinite(y) /\ x[1] * y[2] <= y[1] * x[2]

----------------------------------------------------------------------------
\* generateTooltipDashHTML

Colors == {"red", "blue"}

\* A stroke pattern option: set = FALSE is an absent (null/undefined) option.
NoPattern == [set |-> FALSE, v |-> <<>>]
Pattern(p) == [set |-> TRUE, v |-> p]

RECURSIVE SeqsUpTo(_, _)
SeqsUpTo(S, n) ==
  IF n = 0 THEN {<<>>}
  ELSE LET shorter == SeqsUpTo(S, n - 1)
       IN  shorter \cup {Append(s, x) : s \in {t \in shorter : Len(t) = n - 1}, x \in S}

StrokePatterns == {NoPattern} \cup {Pattern(p) : p \in SeqsUpTo(0..MaxSeg, MaxLen)}

\* strokePattern[k] with the source's 0-based index.
At(p, k) == p[k + 1]

\* The solid-line swatch (no margin-right, padding-left 1em).
SolidBlock(c) ==
  [hasMargin |-> FALSE, marginRight |-> Num(0), paddingLeft |-> Num(1),
   borderPx |-> 2, color |-> c]

\* One block of a dashed swatch.
DashBlock(m, p, c) ==
  [hasMargin |-> TRUE, marginRight |-> m, paddingLeft |-> p,
   borderPx |-> 2, color |-> c]

\* for (i = 0; i <= strokePattern.length; i++) strokePixelLength += ...
RECURSIVE SumFrom(_, _, _)
SumFrom(p, i, last) ==
  IF i > last THEN 0 ELSE At(p, i % Len(p)) + SumFrom(p, i + 1, last)

strokePixelLengthOf(p) == SumFrom(p, 0, Len(p))

loopOf(p, w) == MathFloor(Div(w, strokePixelLengthOf(p) - At(p, 0)))

\* The branch taken: "tile" is the body of if (loop > 1), "squeeze" the else.
tilesOf(p, w) == Greater(loopOf(p, w), 1)

normalizedPatternAlwaysScaled(p, w) ==
  [k \in 1..Len(p) |-> Div(p[k], strokePixelLengthOf(p))]
normalizedPatternOf(p, w) ==
  IF tilesOf(p, w)
  THEN [k \in 1..Len(p) |-> Div(p[k], w)]
  ELSE [k \in 1..Len(p) |-> Div(p[k], strokePixelLengthOf(p))]

segmentLoopNoRepeat(p, w) == Len(p)
segmentLoopOf(p, w) == IF tilesOf(p, w) THEN Len(p) ELSE Len(p) + 1

\* loop after the branch: unchanged when tiling, reset to 1 when squeezing.
finalLoopOf(p, w) == IF tilesOf(p, w) THEN loopOf(p, w) ELSE Num(1)

\* The inner loop: for (i = 0; i < segmentLoop; i += 2) { ... }
RECURSIVE innerLoop(_, _, _, _, _)
innerLoop(p, norm, segmentLoop, c, i) ==
  IF ~(i < segmentLoop) THEN <<>>
  ELSE LET paddingLeft == At(norm, i % Len(norm))
           marginRight == IF i < Len(p) THEN At(norm, (i + 1) % Len(norm))
                          ELSE Num(0)
       IN  <<DashBlock(marginRight, paddingLeft, c)>>
             \o innerLoop(p, norm, segmentLoop, c, i + 2)

\* The outer loop: for (j = 0; j < loop; j++) { ... }, loop finite.
RECURSIVE outerLoop(_, _, _, _, _, _)
outerLoop(p, norm, segmentLoop, c, loop, j) ==
  IF ~(j < loop) THEN <<>>
  ELSE innerLoop(p, norm, segmentLoop, c, 0)
         \o outerLoop(p, norm, segmentLoop, c, loop, j + 1)

\* if (!strokePattern || strokePattern.length <= 1)
isSolidOffByOne(sp) == ~sp.set \/ Len(sp.v) < 1
isSolid(sp) == ~sp.set \/ Len(sp.v) <= 1

\* The whole function.  With loop = Infinity the condition j < loop never
\* fails and the call does not return: returns = FALSE.
generateTooltipDashHTML(sp, c, w) ==
  IF isSolid(sp)
  THEN [returns |-> TRUE, blocks |-> <<SolidBlock(c)>>]
  ELSE LET loop == finalLoopOf(sp.v, w)
       IN  IF loop = Infinity
           THEN [returns |-> FALSE, blocks |-> <<>>]
           ELSE [returns |-> TRUE,
                 blocks |-> outerLoop(sp.v, normalizedPatternOf(sp.v, w),
                                      segmentLoopOf(sp.v, w), c, loop[1], 0)]

----------------------------------------------------------------------------
\* escapeHTML and generateTooltipHTML
\*
\* A string built by the plugin is a sequence of pieces.  A piece records
\* where its text comes from: "markup" is a literal of the plugin (one
\* token), "dash" the swatch of generateTooltipDashHTML, and "name", "xvf",
\* "yvf" and "color" are inserted strings, one token per character.
\* Concatenating an empty string adds no piece.

Lit(s) == <<[from |-> "markup", text |-> <<s>>, swatch |-> <<>>]>>
Ins(from, chars) ==
  IF chars = <<>> THEN <<>>
  ELSE <<[from |-> from, text |-> chars, swatch |-> <<>>]>>
Swatch(blocks) == <<[from |-> "dash", text |-> <<>>, swatch |-> blocks]>>

Undefined == <<>>
Some(v) == <<v>>

\* str.replace(/ch/g, rep) on a sequence of characters.
RECURSIVE ReplaceAll(_, _, _)
ReplaceAll(str, ch, rep) ==
  IF str = <<>> THEN <<>>
  ELSE (IF Head(str) = ch THEN rep ELSE <<Head(str)>>)
         \o ReplaceAll(Tail(str), ch, rep)

escapeHTMLNoLt(str) ==
  ReplaceAll(ReplaceAll(ReplaceAll(str,
      "&", <<"&", "a", "m", "p", ";">>),
      "\"", <<"&", "q", "u", "o", "t", ";">>),
      ">", <<"&", "g", "t", ";">>)
escapeHTML(str) ==
  ReplaceAll(ReplaceAll(ReplaceAll(ReplaceAll(str,
      "&", <<"&", "a", "m", "p", ";">>),
      "\"", <<"&", "q", "u", "o", "t", ";">>),
      "<", <<"&", "l", "t", ";">>),
      ">", <<"&", "g", "t", ";">>)

\* gr.xvf and gr.yvf give the strings the axes' valueFormatter options
\* return for a value (one y axis).
\* g.getLabels(): labels[0] is the x label, labels[i] the name of series i.
\* g.series[i] holds what getPropertiesForSeries(labels[i]) and
\* getOption("strokePattern", labels[i]) return.
SeriesCount(gr) == Len(gr.labels) - 1
SeriesOf(gr, name) ==
  gr.series[CHOOSE i \in 1..SeriesCount(gr) : At(gr.labels, i) = name]

\* One legend line of the no-selection form (lines 239-240).
legendLine(gr, i, w) ==
  Lit("<span style='font-weight: bold; color: ")
    \o Ins("color", <<gr.series[i].color>>) \o Lit(";'>")
    \o Swatch(generateTooltipDashHTML(gr.series[i].strokePattern,
                                      gr.series[i].color, w).blocks)
    \o Lit(" <span class=\"label\">")
    \o Ins("name", escapeHTML(At(gr.labels, i)))
    \o Lit("</span></span>")

\* for (i = 1; i < labels.length; i++) { ... } of the no-selection form.
RECURSIVE legendLoop(_, _, _, _)
legendLoop(gr, w, i, acc) ==
  IF ~(i < Len(gr.labels)) THEN acc
  ELSE IF ~gr.series[i].visible THEN legendLoop(gr, w, i + 1, acc)
  ELSE legendLoop(gr, w, i + 1,
         acc \o (IF acc # <<>> THEN Lit("<br/>") ELSE <<>>)
             \o legendLine(gr, i, w))

\* The two tests that skip a selected point (lines 263-264).  pt.canvasyOK
\* is the result of Dygraph.isOK(pt.canvasy).
skipsPointIgnoringFlag(gr, pt) == pt.yval = 0 \/ ~pt.canvasyOK
skipsPoint(gr, pt) ==
  \/ pt.yval = 0 /\ ~gr.labelsShowZeroValues
  \/ ~pt.canvasyOK

\* One line of the selected-point form (lines 265-276).
pointLine(gr, pt) ==
  Lit("<br/>")
    \o Lit("<span")
    \o (IF gr.highlightSeries = Some(pt.name) THEN Lit(" class='highlight'")
        ELSE <<>>)
    \o Lit(">") \o Lit(" <b><span style='color: ")
    \o Ins("color", <<SeriesOf(gr, pt.name).color>>) \o Lit(";'>")
    \o Ins("name", escapeHTML(pt.name))
    \o Lit("</span></b>:&#160;")
    \o Ins("yvf", gr.yvf[pt.yval])
    \o Lit("</span>")

\* for (i = 0; i < sel_points.length; i++) { ... }
RECURSIVE pointLoop(_, _, _, _)
pointLoop(gr, pts, i, acc) ==
  IF ~(i < Len(pts)) THEN acc
  ELSE IF skipsPoint(gr, At(pts, i)) THEN pointLoop(gr, pts, i + 1, acc)
  ELSE pointLoop(gr, pts, i + 1, acc \o pointLine(gr, At(pts, i)))

generateTooltipHTML(gr, xv, pts, w) ==
  IF gr.showLabelsOnHighlight # TRUE THEN <<>>
  ELSE IF xv = Undefined THEN legendLoop(gr, w, 1, <<>>)
  ELSE LET first == Ins("xvf", gr.xvf[xv[1]])
       IN  pointLoop(gr, pts, 0,
                     first \o (IF first # <<>> THEN Lit(":") ELSE <<>>))

----------------------------------------------------------------------------
\* Inputs of generateTooltipHTML.

Texts == {<<>>, <<"a">>, <<"&">>, <<"\"">>, <<"<">>, <<">">>}
Names == {<<"a">>, <<"&", "a">>, <<"\"">>, <<"<", "a", ">">>, <<">">>}
SecondName == <<"b">>
XValues == {5}
YValues == {0, 1}

\* Points of the selection: at most one per series, in series order.
PointOf(name, yval, ok, px, py) ==
  [name |-> name, yval |-> yval, canvasyOK |-> ok, x |-> px, y |-> py]

Graph(n1, vis1, sp1, hl, slh, lsz, xvf, yvf) ==
  [labels |-> <<<<"x">>, n1, SecondName>>,
   series |-> <<[visible |-> vis1, color |-> "red", strokePattern |-> sp1],
                [visible |-> TRUE, color |-> "blue", strokePattern |-> NoPattern]>>,
   highlightSeries |-> hl,
   showLabelsOnHighlight |-> slh,
   labelsShowZeroValues |-> lsz,
   xvf |-> xvf,
   yvf |-> yvf,
   tooltip |-> "always",
   tooltipDiv |-> Undefined,
   tooltipDivWidth |-> 250,
   axisLabelWidth |-> 50,
   size |-> [width |-> 480, height |-> 320],
   area |-> [x |-> 50, y |-> 10, w |-> 400, h |-> 300]]

NoGraph == Graph(<<"a">>, TRUE, NoPattern, Undefined, TRUE, FALSE,
                 [v \in XValues |-> <<"a">>], [v \in YValues |-> <<"a">>])

----------------------------------------------------------------------------
\* The plugin object and its container.

Px(n) == ToString(n) \o "px"

\* window.scrollX + window.innerWidth
Window == [scrollX |-> 0, innerWidth |-> 600]

\* The div of the host page named by the tooltipDiv option, as the host
\* left it: no inline position, attached to the page, empty.
UserDiv ==
  [display |-> "", left |-> "", top |-> "", width |-> "",
   parent |-> "page", innerHTML |-> <<>>]

\* document.createElement("div"): detached, no inline style, empty.
NewDiv ==
  [display |-> "", left |-> "", top |-> "", width |-> "",
   parent |-> "none", innerHTML |-> <<>>]

\* var tooltip = function() { ... }
Constructed ==
  /\ pc = "constructed"
  /\ tooltip_div_ = "null"
  /\ is_generated_div_ = FALSE
  /\ one_em_width_ = Undefined
  /\ lastEvent = "none" /\ measured = 0 /\ renderedWith = Undefined

PluginIdle ==
  /\ Constructed
  /\ div = NewDiv
  /\ emWidth = 14

\* tooltip.prototype.activate.  The labelsDivStyles option is left at its
\* default (no overrides).
activate(gr) ==
  /\ pc = "constructed"
  /\ IF gr.tooltipDiv # Undefined
     THEN /\ tooltip_div_' = "userDiv"
          /\ UNCHANGED <<div, is_generated_div_>>
     ELSE /\ div' = [NewDiv EXCEPT
                       !.width = Px(gr.tooltipDivWidth),
                       !.top = Px(0),
                       !.left = Px(gr.size.width - gr.tooltipDivWidth - 2),
                       !.parent = "graphDiv"]
          /\ is_generated_div_' = TRUE
          /\ tooltip_div_' = "generatedDiv"
  /\ one_em_width_' = Some(10)
  /\ pc' = "active"
  /\ lastEvent' = "activate" /\ measured' = 0 /\ renderedWith' = Undefined
  /\ UNCHANGED emWidth

\* calculateEmWidthInDiv: the span is appended, measured and removed.
calculateEmWidthInDiv == emWidth

\* The floating position of 'follow' mode (lines 144-151).
leftTooltipOf(gr, pts) ==
  LET leftTooltip == At(pts, 0).x * gr.area.w + 20
  IN  IF (leftTooltip + gr.tooltipDivWidth + 1) > (Window.scrollX + Window.innerWidth)
      THEN leftTooltip - 2 * 20 - gr.tooltipDivWidth - (gr.axisLabelWidth - gr.area.x)
      ELSE leftTooltip
topTooltipOf(gr, pts) == At(pts, 0).y * gr.area.h - 20

\* tooltip.prototype.select on the event e = [selectedX, selectedPoints].
selectMeasuring(e) ==
  /\ pc = "active"
  /\ one_em_width_' = Some(calculateEmWidthInDiv)
  /\ div' = [div EXCEPT
               !.innerHTML = generateTooltipHTML(g, Some(e.selectedX),
                                 e.selectedPoints, calculateEmWidthInDiv),
               !.display = ""]
  /\ lastEvent' = "select" /\ measured' = 1
  /\ renderedWith' = Some(calculateEmWidthInDiv)
  /\ UNCHANGED <<pc, tooltip_div_, is_generated_div_, emWidth>>
select(e) ==
  /\ pc = "active"
  /\ IF g.tooltip = "never"
     THEN /\ div' = [div EXCEPT !.display = "none"]
          /\ renderedWith' = Undefined
     ELSE /\ div' =
               [(IF g.tooltip = "follow"
                 THEN [div EXCEPT
                         !.parent = "graphDiv",
                         !.left = Px(g.axisLabelWidth
                                       + leftTooltipOf(g, e.selectedPoints)),
                         !.top = Px(topTooltipOf(g, e.selectedPoints))]
                 ELSE div)
                EXCEPT
                  !.innerHTML = generateTooltipHTML(g, Some(e.selectedX),
                                    e.selectedPoints, one_em_width_[1]),
                  !.display = ""]
          /\ renderedWith' = one_em_width_
  /\ lastEvent' = "select" /\ measured' = 0
  /\ UNCHANGED <<pc, tooltip_div_, is_generated_div_, one_em_width_, emWidth>>

\* tooltip.prototype.deselect, run for the event named by ev.
deselect(ev) ==
  /\ pc = "active"
  /\ one_em_width_' = Some(calculateEmWidthInDiv)
  /\ div' = [div EXCEPT
               !.innerHTML = generateTooltipHTML(g, Undefined, Undefined,
                                                 calculateEmWidthInDiv)]
  /\ lastEvent' = ev /\ measured' = 1
  /\ renderedWith' = Some(calculateEmWidthInDiv)
  /\ UNCHANGED <<pc, tooltip_div_, is_generated_div_, emWidth>>

\* tooltip.prototype.didDrawChart: this.deselect(e)
didDrawChart == deselect("didDrawChart")

\* tooltip.prototype.predraw
predraw ==
  /\ pc = "active"
  /\ IF ~is_generated_div_
     THEN UNCHANGED div
     ELSE div' = [div EXCEPT
                   !.parent = "graphDiv",
                   !.left = Px(g.area.x + g.area.w - g.tooltipDivWidth - 1),
                   !.top = Px(g.area.y),
                   !.width = Px(g.tooltipDivWidth)]
  /\ lastEvent' = "predraw" /\ measured' = 0 /\ renderedWith' = Undefined
  /\ UNCHANGED <<pc, tooltip_div_, is_generated_div_, one_em_width_, emWidth>>

\* tooltip.prototype.destroy; the host delivers no event afterwards.
destroy ==
  /\ pc = "active"
  /\ tooltip_div_' = "null"
  /\ pc' = "destroyed"
  /\ lastEvent' = "destroy" /\ measured' = 0 /\ renderedWith' = Undefined
  /\ UNCHANGED <<is_generated_div_, one_em_width_, div, emWidth>>

----------------------------------------------------------------------------
\* SpecDash: one call of generateTooltipDashHTML.

NoDash == [returns |-> FALSE, blocks |-> <<>>]

InitDash ==
  /\ strokePattern \in StrokePatterns
  /\ color \in Colors
  /\ oneEmWidth \in 0..MaxEm
  /\ dashPc = "called"
  /\ dash = NoDash
  /\ g = NoGraph /\ xValue = Undefined /\ sel_points = <<>>
  /\ htmlPc = "idle" /\ html = <<>>
  /\ PluginIdle

DashReturn ==
  /\ dashPc = "called"
  /\ generateTooltipDashHTML(strokePattern, color, oneEmWidth).returns
  /\ dash' = generateTooltipDashHTML(strokePattern, color, oneEmWidth)
  /\ dashPc' = "returned"
  /\ UNCHANGED <<strokePattern, color, oneEmWidth>>
  /\ UNCHANGED htmlVars /\ UNCHANGED pluginVars

DashHang ==
  /\ dashPc = "called"
  /\ ~generateTooltipDashHTML(strokePattern, color, oneEmWidth).returns
  /\ dashPc' = "hung"
  /\ UNCHANGED <<strokePattern, color, oneEmWidth, dash>>
  /\ UNCHANGED htmlVars /\ UNCHANGED pluginVars

NextDash == DashReturn \/ DashHang

SpecDash == InitDash /\ [][NextDash]_vars

----------------------------------------------------------------------------
\* SpecHTML: one call of generateTooltipHTML.

InitHTML ==
  /\ strokePattern = NoPattern /\ color = "red" /\ oneEmWidth = 10
  /\ dashPc = "idle" /\ dash = NoDash
  /\ g \in {Graph(n1, vis1, Pattern(<<2, 1>>), hl, slh, lsz, xvf, yvf) :
               n1 \in Names, vis1 \in BOOLEAN, hl \in {Undefined, Some(<<"a">>)},
               slh \in BOOLEAN, lsz \in BOOLEAN,
               xvf \in [XValues -> Texts],
               yvf \in {[v \in YValues |-> IF v = 0 THEN t ELSE u] :
                          t \in Texts, u \in {<<"1">>, <<"<">>}}}
  /\ xValue = Undefined /\ sel_points = <<>>
  /\ htmlPc = "idle" /\ html = <<>>
  /\ PluginIdle

\* The selections the host can pass: a point of the first series, then
\* possibly a point of the second.
Selections ==
  LET P1 == {PointOf(At(g.labels, 1), yv, ok, 0, 0) : yv \in YValues, ok \in BOOLEAN}
      P2 == {PointOf(At(g.labels, 2), yv, ok, 0, 0) : yv \in YValues, ok \in BOOLEAN}
  IN  {<<p>> : p \in P1} \cup {<<p, q>> : p \in P1, q \in P2}

\* deselect's call: no x, no points.
CallLegend ==
  /\ htmlPc = "idle"
  /\ xValue' = Undefined /\ sel_points' = <<>>
  /\ html' = generateTooltipHTML(g, Undefined, <<>>, oneEmWidth)
  /\ htmlPc' = "returned"
  /\ UNCHANGED <<g>> /\ UNCHANGED dashVars /\ UNCHANGED pluginVars

\* select's call: the selected x and points.
CallSelected ==
  /\ htmlPc = "idle"
  /\ \E xv \in XValues, pts \in Selections :
       /\ xValue' = Some(xv) /\ sel_points' = pts
       /\ html' = generateTooltipHTML(g, Some(xv), pts, oneEmWidth)
  /\ htmlPc' = "returned"
  /\ UNCHANGED <<g>> /\ UNCHANGED dashVars /\ UNCHANGED pluginVars

NextHTML == CallLegend \/ CallSelected

SpecHTML == InitHTML /\ [][NextHTML]_vars

----------------------------------------------------------------------------
\* Spec: the life cycle of one plugin instance on one chart.

\* Pixel widths of 1em the page's styles can give the container.
EmWidths == {14, 30}

Modes == {"always", "follow", "never"}

\* The chart of the life cycle: two visible series, the first dashed with a
\* pattern of positive sum (so every generateTooltipDashHTML call returns),
\* one y axis, formatters that print the value.
Dygraph(mode, userDiv, slh, lsz) ==
  [Graph(<<"a">>, TRUE, Pattern(<<8, 4>>), Undefined, slh, lsz,
         [v \in XValues |-> <<"5">>],
         [v \in YValues |-> IF v = 0 THEN <<"0">> ELSE <<"1">>])
     EXCEPT !.tooltip = mode, !.tooltipDiv = userDiv]

Init ==
  /\ strokePattern = NoPattern /\ color = "red" /\ oneEmWidth = 10
  /\ dashPc = "idle" /\ dash = NoDash
  /\ xValue = Undefined /\ sel_points = <<>>
  /\ htmlPc = "idle" /\ html = <<>>
  /\ g \in {Dygraph(mode, userDiv, slh, lsz) :
               mode \in Modes, userDiv \in {Undefined, Some("userDiv")},
               slh \in BOOLEAN, lsz \in BOOLEAN}
  /\ Constructed
  /\ div = IF g.tooltipDiv # Undefined THEN UserDiv ELSE NewDiv
  /\ emWidth \in EmWidths

\* The select events the host can deliver: the x value and the points of
\* the row under the cursor, with their normalized coordinates.
SelectEvents ==
  {[selectedX |-> xv,
    selectedPoints |-> <<PointOf(At(g.labels, 1), yv, TRUE, px, py),
                         PointOf(At(g.labels, 2), 1, TRUE, px, py)>>] :
     xv \in XValues, yv \in YValues, px \in {0, 1}, py \in {0, 1}}

Activate == activate(g) /\ UNCHANGED dashVars /\ UNCHANGED htmlVars
Select == (\E e \in SelectEvents : select(e)) /\ UNCHANGED dashVars /\ UNCHANGED htmlVars
Deselect == deselect("deselect") /\ UNCHANGED dashVars /\ UNCHANGED htmlVars
DidDrawChart == didDrawChart /\ UNCHANGED dashVars /\ UNCHANGED htmlVars
Predraw == predraw /\ UNCHANGED dashVars /\ UNCHANGED htmlVars
Destroy == destroy /\ UNCHANGED dashVars /\ UNCHANGED htmlVars

\* The page restyles the container: 1em gets another pixel width.
StyleChange ==
  /\ pc = "active"
  /\ emWidth' \in EmWidths \ {emWidth}
  /\ lastEvent' = "styleChange" /\ measured' = 0 /\ renderedWith' = Undefined
  /\ UNCHANGED <<pc, tooltip_div_, is_generated_div_, one_em_width_, div>>
  /\ UNCHANGED dashVars /\ UNCHANGED htmlVars

Next ==
  \/ Activate
  \/ Select
  \/ Deselect
  \/ DidDrawChart
  \/ Predraw
  \/ Destroy
  \/ StyleChange

Spec == Init /\ [][Next]_vars

----------------------------------------------------------------------------
\* Properties of generateTooltipDashHTML (checked under SpecDash).

\* Total rendered width in em: padding-left + margin-right over all blocks.
RECURSIVE TotalEm(_)
TotalEm(blocks) ==
  IF blocks = <<>> THEN Num(0)
  ELSE Add(Add(Head(blocks).paddingLeft, Head(blocks).marginRight),
           TotalEm(Tail(blocks)))

Positive(p) == \A k \in 1..Len(p) : p[k] > 0
Dashed == strokePattern.set /\ Len(strokePattern.v) >= 2
TwoElement == strokePattern.set /\ Len(strokePattern.v) = 2 /\ Positive(strokePattern.v)
PatA == strokePattern.v[1]
PatB == strokePattern.v[2]
\* loopCount = floor(budget / (a + b)) of a two-element pattern.
LoopCount2 == oneEmWidth \div (PatA + PatB)

\* C1: for every pattern of length >= 2 with positive elements and every
\* positive budget, the blocks' total width (padding-left + margin-right) is
\* at most 1em, in the tiling and in the squeeze branch.
C1_NoOverflow ==
  (dashPc = "returned" /\ Dashed /\ Positive(strokePattern.v) /\ oneEmWidth > 0)
    => AtMost(TotalEm(dash.blocks), Num(1))

\* C2: a two-element pattern [a, b] with loopCount <= 1 gives exactly two
\* blocks: (a/(2a+b) em, b/(2a+b) em) and the closing (a/(2a+b) em, 0).
C2_Squeeze ==
  (dashPc = "returned" /\ TwoElement /\ LoopCount2 <= 1)
    => /\ Len(dash.blocks) = 2
       /\ Same(dash.blocks[1].paddingLeft, <<PatA, 2 * PatA + PatB>>)
       /\ Same(dash.blocks[1].marginRight, <<PatB, 2 * PatA + PatB>>)
       /\ Same(dash.blocks[2].paddingLeft, <<PatA, 2 * PatA + PatB>>)
       /\ dash.blocks[2].marginRight = Num(0)

\* The end-to-end example: pattern [8, 4], budget 1.
C2_Witness ==
  /\ dashPc = "returned" /\ strokePattern = Pattern(<<8, 4>>) /\ oneEmWidth = 1
  /\ Len(dash.blocks) = 2

\* C3 as stated: for a two-element pattern with loopCount > 1, the total em
\* width divided by the budget equals loopCount.
C3_TilingAsStated ==
  (dashPc = "returned" /\ TwoElement /\ LoopCount2 > 1)
    => LET t == TotalEm(dash.blocks)
       IN  Same(<<t[1], t[2] * oneEmWidth>>, Num(LoopCount2))

\* C3 amended: for a two-element pattern with loopCount > 1, the total em
\* width multiplied by the budget and divided by a + b equals loopCount.
C3_Tiling ==
  (dashPc = "returned" /\ TwoElement /\ LoopCount2 > 1)
    => LET t == TotalEm(dash.blocks)
       IN  Same(<<t[1] * oneEmWidth, t[2] * (PatA + PatB)>>, Num(LoopCount2))

C3_Witness ==
  /\ dashPc = "returned" /\ TwoElement /\ LoopCount2 > 2
  /\ Len(dash.blocks) = LoopCount2

\* C4: for every pattern of length >= 2 with non-negative elements and every
\* budget, a non-finite or non-positive loopCount takes the squeeze branch
\* (loopCount 1) and the call returns a finite number of blocks.
C4_ZeroGuard ==
  (Dashed /\ dashPc # "called")
    => /\ dashPc = "returned"
       /\ (~IsFinite(loopOf(strokePattern.v, oneEmWidth))
             \/ ~Greater(loopOf(strokePattern.v, oneEmWidth), 0))
            => ~tilesOf(strokePattern.v, oneEmWidth)

\* C5: an absent, empty or one-element pattern gives exactly one swatch with
\* padding-left 1em and a 2px bottom border in the given colour, whatever
\* the budget.
C5_Solid ==
  (dashPc # "called" /\ (~strokePattern.set \/ Len(strokePattern.v) <= 1))
    => /\ dashPc = "returned"
       /\ dash.blocks = <<[hasMargin |-> FALSE, marginRight |-> <<0, 1>>,
                           paddingLeft |-> <<1, 1>>, borderPx |-> 2,
                           color |-> color]>>

C5_Witness ==
  /\ dashPc = "returned" /\ strokePattern.set /\ Len(strokePattern.v) = 1
  /\ oneEmWidth > 1 /\ Len(dash.blocks) = 1

----------------------------------------------------------------------------
\* Properties of generateTooltipHTML (checked under SpecHTML).

Entities ==
  {<<"&", "a", "m", "p", ";">>, <<"&", "q", "u", "o", "t", ";">>,
   <<"&", "l", "t", ";">>, <<"&", "g", "t", ";">>}

\* No ", < or > in the text, and every & starts one of the four entities.
Escaped(text) ==
  \A i \in 1..Len(text) :
    /\ text[i] \notin {"\"", "<", ">"}
    /\ text[i] = "&" =>
         \E en \in Entities :
           /\ i + Len(en) - 1 <= Len(text)
           /\ SubSeq(text, i, i + Len(en) - 1) = en

\* C6: in every fragment of generateTooltipHTML (legend form and
\* selected-point form) every series name and every formatter result (x
\* and y) is inserted with &, ", < and > replaced by their entities.
C6_Escaping ==
  htmlPc = "returned"
    => \A k \in 1..Len(html) :
         html[k].from \in {"name", "xvf", "yvf"} => Escaped(html[k].text)

\* The fragment has a line for the series of that name.
HasLine(name) ==
  \E k \in 1..Len(html) : html[k].from = "name" /\ html[k].text = escapeHTML(name)

ZeroPoints == {k \in 1..Len(sel_points) : sel_points[k].yval = 0}

\* C7 as stated: with a selection, a point of value 0 has no line when
\* labelsShowZeroValues is false and has a line when it is true.
C7_AsStated ==
  (htmlPc = "returned" /\ xValue # Undefined)
    => \A k \in ZeroPoints :
         HasLine(sel_points[k].name) <=> g.labelsShowZeroValues

\* C7 amended: with a selection, a point of value 0 has a line exactly when
\* labelsShowZeroValues is true, the point's canvasy is a valid number and
\* showLabelsOnHighlight is true.
C7_ZeroSuppression ==
  (htmlPc = "returned" /\ xValue # Undefined)
    => \A k \in ZeroPoints :
         HasLine(sel_points[k].name)
           <=> (g.labelsShowZeroValues /\ sel_points[k].canvasyOK
                  /\ g.showLabelsOnHighlight)

C7_Witness ==
  /\ htmlPc = "returned" /\ xValue # Undefined /\ Len(sel_points) = 2
  /\ sel_points[1].yval = 0 /\ sel_points[2].yval = 0
  /\ g.labelsShowZeroValues
  /\ HasLine(sel_points[1].name) /\ ~HasLine(sel_points[2].name)

----------------------------------------------------------------------------
\* Properties of the life cycle (checked under Spec).

\* C8 as stated: one_em_width_ is measured only by deselect events, once
\* per event; a select neither measures nor changes it and renders with
\* the cached value; predraw leaves it unchanged.
C8_AsStated ==
  [][/\ measured' = 1 <=> lastEvent' = "deselect"
     /\ one_em_width_' # one_em_width_ => lastEvent' \in {"activate", "deselect"}
     /\ lastEvent' = "deselect" => one_em_width_' = Some(emWidth')
     /\ lastEvent' = "select" =>
          /\ one_em_width_' = one_em_width_
          /\ renderedWith' # Undefined => renderedWith' = one_em_width_
     /\ lastEvent' = "predraw" => one_em_width_' = one_em_width_]_vars

\* C8 amended: one_em_width_ is measured only by the deselect handler,
\* which runs on deselect and on didDrawChart events, once per event; a
\* select neither measures nor changes it and renders with the cached
\* value; predraw leaves it unchanged.
C8_Caching ==
  [][/\ measured' = 1 <=> lastEvent' \in {"deselect", "didDrawChart"}
     /\ one_em_width_' # one_em_width_
          => lastEvent' \in {"activate", "deselect", "didDrawChart"}
     /\ lastEvent' \in {"deselect", "didDrawChart"}
          => one_em_width_' = Some(emWidth')
     /\ lastEvent' = "select" =>
          /\ one_em_width_' = one_em_width_
          /\ renderedWith' # Undefined => renderedWith' = one_em_width_
     /\ lastEvent' = "predraw" => one_em_width_' = one_em_width_]_vars

\* A select that rendered with a stale cached width.
C8_Witness ==
  /\ lastEvent = "select" /\ measured = 0
  /\ renderedWith = Some(30) /\ one_em_width_ = Some(30) /\ emWidth = 14

\* C9: a container supplied by the host keeps the left, top, width and
\* parent the host gave it, whatever events arrive and in every mode.
C9_UserDivUntouched ==
  (pc = "active" /\ ~is_generated_div_)
    => /\ div.left = UserDiv.left /\ div.top = UserDiv.top
       /\ div.width = UserDiv.width /\ div.parent = UserDiv.parent

\* C10: in mode 'never' the container is never both visible and holding
\* markup.
C10_NeverShown ==
  (pc = "active" /\ g.tooltip = "never")
    => ~(div.display # "none" /\ div.innerHTML # <<>>)

====
